---- MODULE Spec2Model ----
(***************************************************************************)
(* Model of the market simulation core: Market construction and cleaner    *)
(* registry (models/market.py), and the Simulator's search pipeline        *)
(* (simulation/simulator.py) driven by a SimulationConfig.                 *)
(*                                                                         *)
(* Numbers.  Coordinates are quantised to an integer grid; the valid       *)
(* latitude / longitude ranges are -MaxLat..MaxLat and -MaxLon..MaxLon.    *)
(* Probabilities and scores are fixed-point percentages (100 = 1.0); the   *)
(* distance decay factor is in tenths.                                     *)
(* An Optional[T] value is a sequence: None is << >>, a present x is <<x>>.*)
(*                                                                         *)
(* Randomness.  np.random is one process-wide generator: a state that      *)
(* np.random.seed sets from the seed alone and every draw advances; its    *)
(* state at process start is arbitrary.  uuid.uuid4 does not read that     *)
(* generator; each call yields a value no earlier call yielded.            *)
(*                                                                         *)
(* Spec is a Market's life: construction, add_cleaner calls, then one      *)
(* run_simulation.  SpecRuns is repeated run_simulation calls on a Market   *)
(* set up as SimulationRunner.setup_*_market does.  SpecCalls is a direct   *)
(* call on a set-up Market, SpecModels a direct call on a method of        *)
(* Cleaner, Simulator or SimulationConfig, and SpecMetrics a run followed   *)
(* by the collection of its metrics (simulation/metrics.py).               *)
(***************************************************************************)
EXTENDS Integers, Sequences, FiniteSets, TLC

\* ------------------------------------------------------------------ bounds
MaxLat == 2
MaxLon == 2
MaxIter == 2
MaxSupply == 2
MaxAdds == 3
MaxRuns == 2
MaxSeed == 1
MaxAddResults == 2

\* ------------------------------------------------------------- Optional[T]
None == << >>
Some(x) == << x >>
IsNone(o) == o = << >>
Val(o) == o[1]

Abs(x) == IF x < 0 THEN -x ELSE x
Max2(a, b) == IF a >= b THEN a ELSE b
Min2(a, b) == IF a <= b THEN a ELSE b
Range(s) == { s[k] : k \in 1..Len(s) }

\* ------------------------------------------------------------- geo_utils
\* Great-circle distance between two grid points, in grid units: symmetric,
\* zero exactly for identical points, never negative.
calculate_haversine_distance(lat1, lon1, lat2, lon2) ==
    Abs(lat1 - lat2) + Abs(lon1 - lon2)

\* ------------------------------------------------------------ PostalCode
\* A PostalCode; area keeps its default, None.
PostalCode(code, lat, lon, tam) ==
    [postal_code |-> code, latitude |-> lat, longitude |-> lon, str_tam |-> tam,
     area |-> None]

TwoCodes == << PostalCode("p1", 0, 0, 1), PostalCode("p2", 1, MaxLon, 3) >>
ZeroTam == << PostalCode("p1", 0, 0, 0) >>

\* The postal-code dictionaries a caller passes (insertion ordered, unique keys).
CodeMaps == { << >>, TwoCodes, ZeroTam }

PostalKeys(codes) == { codes[k].postal_code : k \in 1..Len(codes) }

\* ---------------------------------------------------------------- Cleaner
\* A Cleaner; service_radius keeps its default, 10.0.
Cleaner(id, lat, lon, code, act, score, team, conns) ==
    [contractor_id |-> id, latitude |-> lat, longitude |-> lon,
     postal_code |-> code, bidding_active |-> act, cleaner_score |-> score,
     service_radius |-> 10, team_size |-> team, active_connections |-> conns]

\* The cleaners a caller may offer to add_cleaner.
CleanerPool ==
    { Cleaner("c1", 0, 0, Some("p1"), TRUE, 80, 2, 5),
      Cleaner("c1", 1, 0, Some("p2"), TRUE, 100, 1, 0),
      Cleaner("c2", 1, 1, Some("p2"), FALSE, 50, 1, 12),
      Cleaner("c3", 0, 1, None, TRUE, 80, 1, 0),
      Cleaner("c4", MaxLat, MaxLon, Some("zz"), TRUE, 60, 1, 0) }

Cleaner_calculate_distance_to(c, lat, lon) ==
    calculate_haversine_distance(c.latitude, c.longitude, lat, lon)

\* Mutant: the capacity factor has no floor.
Cleaner_calculate_capacity_factor_raw(c) ==
    100 - (100 * c.active_connections) \div (c.team_size * 10)

\* Cleaner.calculate_capacity_factor, as a percentage:
\* max(0.1, 1 - active_connections / max_connections), max_connections being
\* team_size * 10.
Cleaner_calculate_capacity_factor(c) ==
    Max2(10, 100 - (100 * c.active_connections) \div (c.team_size * 10))

\* ------------------------------------------------------- SimulationConfig
SimulationConfig(iters, supply, seed, radius, bid, conn) ==
    [ search_iterations |-> iters,
      supply_configuration_iterations |-> supply,
      random_seed |-> seed,
      search_radius_km |-> radius,
      cleaner_base_bid_probability |-> bid,
      connection_base_probability |-> conn,
      distance_decay_factor |-> 2,
      min_capacity_factor |-> 10 ]

\* SimulationConfig.__post_init__'s validators, in the order they run, on the
\* numeric parameters: the error raised, or "none".  search_radius_km is not
\* looked at by any of them.
SimulationConfig_post_init(cfg) ==
    IF cfg.search_iterations <= 0 THEN "ValueError"
    ELSE IF cfg.supply_configuration_iterations <= 0 THEN "ValueError"
    ELSE IF ~(0 <= cfg.cleaner_base_bid_probability
              /\ cfg.cleaner_base_bid_probability <= 100) THEN "ValueError"
    ELSE IF ~(0 <= cfg.connection_base_probability
              /\ cfg.connection_base_probability <= 100) THEN "ValueError"
    ELSE IF cfg.distance_decay_factor < 0 THEN "ValueError"
    ELSE IF ~(0 < cfg.min_capacity_factor
              /\ cfg.min_capacity_factor <= 100) THEN "ValueError"
    ELSE "none"

\* SimulationConfig.asdict: the dict it returns, a function from its keys.
\* search_radius_km is not among the keys.
SimulationConfig_asdict(cfg) ==
    ("search_iterations" :> cfg.search_iterations)
    @@ ("supply_configuration_iterations" :> cfg.supply_configuration_iterations)
    @@ ("random_seed" :> cfg.random_seed)
    @@ ("cleaner_base_bid_probability" :> cfg.cleaner_base_bid_probability)
    @@ ("connection_base_probability" :> cfg.connection_base_probability)
    @@ ("distance_decay_factor" :> cfg.distance_decay_factor)
    @@ ("min_capacity_factor" :> cfg.min_capacity_factor)

\* The dataclass defaults of SimulationConfig's fields.
SimulationConfig_defaults ==
    [ search_iterations |-> 10,
      supply_configuration_iterations |-> 10,
      random_seed |-> None,
      search_radius_km |-> 10,
      cleaner_base_bid_probability |-> 14,
      connection_base_probability |-> 40,
      distance_decay_factor |-> 2,
      min_capacity_factor |-> 10 ]

\* SimulationConfig.from_dict(d) = cls(**d): a field takes the value under its
\* key, or its default when the key is missing; then __post_init__ validates.
SimulationConfig_from_dict(d) ==
    LET built == [ f \in DOMAIN SimulationConfig_defaults |->
                     IF f \in DOMAIN d THEN d[f] ELSE SimulationConfig_defaults[f] ]
        err == SimulationConfig_post_init(built)
    IN [err |-> err, config |-> IF err = "none" THEN Some(built) ELSE None]

\* The configurations callers construct: every iteration count and seed choice
\* with a search radius of 2 and certain base probabilities, the default base
\* probabilities (0.14, 0.4), and a search radius of 0, which
\* SimulationConfig.__post_init__ does not reject.
Configs ==
    { SimulationConfig(i, n, sd, 2, 100, 100) :
        i \in 1..MaxIter, n \in 1..MaxSupply,
        sd \in {None} \cup { Some(x) : x \in 1..MaxSeed } }
    \cup { SimulationConfig(MaxIter, 1, None, 2, 14, 40),
           SimulationConfig(1, 1, Some(MaxSeed), 0, 100, 100) }

\* Arguments with one numeric parameter out of its range: an iteration count
\* of 0, a base probability below 0 or above 1, a negative distance decay
\* factor, a capacity floor of 0 or above 1, a negative search radius.
OutOfRangeConfigs ==
    { SimulationConfig(0, 1, None, 2, 100, 100),
      SimulationConfig(1, 0, None, 2, 100, 100),
      SimulationConfig(1, 1, None, 2, 101, 100),
      SimulationConfig(1, 1, None, 2, 100, -1),
      [SimulationConfig(1, 1, None, 2, 100, 100) EXCEPT
          !.distance_decay_factor = -1],
      [SimulationConfig(1, 1, None, 2, 100, 100) EXCEPT
          !.min_capacity_factor = 0],
      [SimulationConfig(1, 1, None, 2, 100, 100) EXCEPT
          !.min_capacity_factor = 101],
      SimulationConfig(1, 1, None, -1, 100, 100) }

\* Every argument list SimulationConfig(...) is called with.
ConfigArgs == Configs \cup OutOfRangeConfigs

\* -------------------------------------------------------------- np.random
\* The process-wide generator: a state, a deterministic successor, and the value
\* a draw yields.  A draw yields u in 0..3, standing for the float u/4 in [0,1).
RngStates == 0..31
RngNext(s) == (13 * s + 11) % 32
RngOut(s) == s \div 8
\* np.random.seed(seed): the state depends on the seed alone.
np_random_seed(seed) == (5 * seed + 2) % 32

\* The values of np.exp(-x) as percentages, x given in tenths
\* (x = 10 * decay * distance).
ExpNegTable ==
    << 100, 90, 82, 74, 67, 61, 55, 50, 45, 41, 37, 33, 30, 27, 25, 22, 20,
       18, 17, 15, 14, 12, 11, 10, 9, 8, 7, 7, 6, 6, 5 >>
\* Mutant: the exponent's sign is dropped (np.exp(x), by its series).
np_exp_pos(x) == 100 + 10 * x + (x * x) \div 2

\* np.exp(-x)
np_exp_neg(x) == IF x < Len(ExpNegTable) THEN ExpNegTable[x + 1] ELSE 1

\* Cleaner.calculate_bid_probability(distance, distance_decay_factor,
\* base_probability), scaled by 100^4.
Cleaner_calculate_bid_probability(c, distance, distance_decay_factor, base_probability) ==
    IF ~c.bidding_active THEN 0
    ELSE LET quality_factor == c.cleaner_score
             capacity_factor == Cleaner_calculate_capacity_factor(c)
             distance_factor == np_exp_neg(distance_decay_factor * distance)
             probability == base_probability * quality_factor * capacity_factor
                                * distance_factor
         IN Max2(0, Min2(100000000, probability))

VARIABLES
    config,       \* Optional SimulationConfig (frozen once constructed)
    market,       \* Optional Market: geography fields of the constructed Market
    cleaners,     \* Market.cleaners: insertion-ordered dict, as a sequence
    rng,          \* state of the process-wide np.random generator
    uuidCalls,    \* uuid.uuid4() calls made so far; a uuid4 is unique, the k-th
                  \* call yields the value k
    ctorArgs,     \* Optional: arguments of the Market(...) call
    ctorRaised,   \* whether that call raised
    addArg,       \* Optional: argument of the last add_cleaner call
    addRaised,    \* whether that call raised
    nAdds,        \* number of add_cleaner calls made while setting the market up
    iterations,   \* Optional: argument of the current run_simulation call
    n_iter,       \* run_simulation's n_iter
    results,      \* run_simulation's results list
    trials,       \* simulate_search calls made by the current run
    runNo,        \* number of run_simulation calls started
    prevRun,      \* Optional: [iterations, results] of the previous returned run
    pc,           \* "new", "failed", "setup", "ready", "running", "returned", "raised",
                  \* "called", "reported"
    op,           \* name of the last method called directly by a caller, or "none"
    args,         \* that call's arguments
    ret,          \* what that call returned or raised
    market_metrics,  \* SimulationMetrics.market_metrics, a MarketMetrics
    sm_results,      \* SimulationMetrics.results
    nAddResults,     \* number of SimulationMetrics.add_results calls made
    metricsOut       \* Optional: what get_metrics returned or raised

vars == << config, market, cleaners, rng, uuidCalls, ctorArgs, ctorRaised, addArg,
           addRaised, nAdds, iterations, n_iter, results, trials, runNo,
           prevRun, pc, op, args, ret, market_metrics, sm_results, nAddResults,
           metricsOut >>

marketVars == << market, cleaners, ctorArgs, ctorRaised >>
addVars == << addArg, addRaised, nAdds >>
runVars == << iterations, n_iter, results, trials, runNo, prevRun >>
loopVars == << iterations, n_iter, runNo, prevRun >>
callVars == << op, args, ret >>
metricVars == << market_metrics, sm_results, nAddResults, metricsOut >>

\* ----------------------------------------------------------------- Market
MarketArgs ==
    [ postal_codes : {None} \cup { Some(m) : m \in CodeMaps },
      center_lat : {None, Some(0), Some(MaxLat + 1)},
      center_lon : {None, Some(0), Some(-MaxLon - 1)},
      radius_km : {None, Some(0), Some(2)} ]

\* Market.__post_init__: TRUE when the constructor raises ValueError.
Market_post_init_raises(a) ==
    \/ /\ IsNone(a.postal_codes)
       /\ (IsNone(a.center_lat) \/ IsNone(a.center_lon) \/ IsNone(a.radius_km))
    \/ /\ ~IsNone(a.postal_codes)
       /\ (~IsNone(a.center_lat) \/ ~IsNone(a.center_lon) \/ ~IsNone(a.radius_km))
    \/ /\ ~IsNone(a.center_lat)
       /\ ~(-MaxLat <= Val(a.center_lat) /\ Val(a.center_lat) <= MaxLat)
    \/ /\ ~IsNone(a.center_lon)
       /\ ~(-MaxLon <= Val(a.center_lon) /\ Val(a.center_lon) <= MaxLon)
    \/ /\ ~IsNone(a.radius_km)
       /\ Val(a.radius_km) <= 0

\* Mutant: the location variant's distance check is missing.
add_cleaner_raises_postal_only(m, c) ==
    /\ ~IsNone(m.postal_codes)
    /\ \/ IsNone(c.postal_code)
       \/ Val(c.postal_code) \notin PostalKeys(Val(m.postal_codes))

\* add_cleaner's validation: TRUE when it raises ValueError for cleaner c.
add_cleaner_raises(m, c) ==
    IF ~IsNone(m.postal_codes)
    THEN \/ IsNone(c.postal_code)
         \/ Val(c.postal_code) \notin PostalKeys(Val(m.postal_codes))
    ELSE calculate_haversine_distance(Val(m.center_lat), Val(m.center_lon),
                                      c.latitude, c.longitude) > Val(m.radius_km)

\* Mutant: the registry is a list that is appended to.
DictPutAppend(reg, c) == Append(reg, c)

\* self.cleaners[cleaner.contractor_id] = cleaner on an insertion-ordered dict:
\* an existing key keeps its position and gets the new value, a new key is
\* appended.
DictPut(reg, c) ==
    IF \E k \in 1..Len(reg) : reg[k].contractor_id = c.contractor_id
    THEN [ k \in 1..Len(reg) |->
             IF reg[k].contractor_id = c.contractor_id THEN c ELSE reg[k] ]
    ELSE Append(reg, c)

\* Mutant: the boundary is excluded (distance < radius_km).
RECURSIVE ScanInRangeStrict(_, _, _, _)
ScanInRangeStrict(reg, lat, lon, radius_km) ==
    IF reg = << >> THEN << >>
    ELSE LET rest == ScanInRangeStrict(Tail(reg), lat, lon, radius_km)
         IN IF Cleaner_calculate_distance_to(Head(reg), lat, lon) < radius_km
            THEN << Head(reg) >> \o rest
            ELSE rest

\* Market.get_cleaners_in_range, past its radius check: the linear scan.
RECURSIVE ScanInRange(_, _, _, _)
ScanInRange(reg, lat, lon, radius_km) ==
    IF reg = << >> THEN << >>
    ELSE LET rest == ScanInRange(Tail(reg), lat, lon, radius_km)
         IN IF Cleaner_calculate_distance_to(Head(reg), lat, lon) <= radius_km
            THEN << Head(reg) >> \o rest
            ELSE rest

\* Mutant: only a negative radius is rejected.
get_cleaners_in_range_negative_only(reg, lat, lon, radius_km) ==
    IF radius_km < 0
    THEN [err |-> "ValueError", in_range |-> None]
    ELSE [err |-> "none", in_range |-> Some(ScanInRange(reg, lat, lon, radius_km))]

\* Market.get_cleaners_in_range: err is "none" or "ValueError"; in_range is the
\* returned list, absent when the call raises.
get_cleaners_in_range(reg, lat, lon, radius_km) ==
    IF radius_km <= 0
    THEN [err |-> "ValueError", in_range |-> None]
    ELSE [err |-> "none", in_range |-> Some(ScanInRange(reg, lat, lon, radius_km))]

RECURSIVE SumTam(_)
SumTam(codes) ==
    IF codes = << >> THEN 0 ELSE Head(codes).str_tam + SumTam(Tail(codes))

\* Mutant: the first index whose cumulative weight reaches u/4
\* (searchsorted(u, side='left')).
RECURSIVE ChoiceIndexLeft(_, _, _, _, _)
ChoiceIndexLeft(codes, total, u, k, cum) ==
    IF k >= Len(codes) THEN Len(codes)
    ELSE IF (cum + codes[k].str_tam) * 4 >= u * total THEN k
    ELSE ChoiceIndexLeft(codes, total, u, k + 1, cum + codes[k].str_tam)

\* np.random.choice(values, p=weights) for a draw u: the first index whose
\* cumulative weight exceeds u/4 (cdf.searchsorted(u, side='right')).
RECURSIVE ChoiceIndex(_, _, _, _, _)
ChoiceIndex(codes, total, u, k, cum) ==
    IF k >= Len(codes) THEN Len(codes)
    ELSE IF (cum + codes[k].str_tam) * 4 > u * total THEN k
    ELSE ChoiceIndex(codes, total, u, k + 1, cum + codes[k].str_tam)

\* np.random.normal(mean, std) with std of about one grid unit, for a draw u.
NormalOffset(u) == IF u = 0 THEN -1 ELSE IF u = 3 THEN 1 ELSE 0

\* cos and sin of the angle 2*pi*u/4 drawn by np.random.uniform(0, 2*pi).
CosQuarter(u) == IF u = 0 THEN 1 ELSE IF u = 2 THEN -1 ELSE 0
SinQuarter(u) == IF u = 1 THEN 1 ELSE IF u = 3 THEN -1 ELSE 0

\* Mutant: a total weight of 0 is not divided by.
WeightsDivideByZeroNever(codes, total) == FALSE

\* "weights = [w/total_tam for w in weights]": TRUE when a division by zero
\* raises ZeroDivisionError (an empty list divides nothing).
WeightsDivideByZero(codes, total) == codes # << >> /\ total = 0

\* Market.sample_location_by_tam, from generator state s.
\* err is "none", "ZeroDivisionError" or "ValueError".
sample_location_by_tam(m, s) ==
    IF ~IsNone(m.postal_codes)
    THEN LET codes == Val(m.postal_codes)
             total == SumTam(codes)
         IN IF WeightsDivideByZero(codes, total)
            THEN [err |-> "ZeroDivisionError", latitude |-> 0, longitude |-> 0,
                  postal_code |-> None, rng |-> s]
            ELSE IF codes = << >>
            THEN [err |-> "ValueError", latitude |-> 0, longitude |-> 0,
                  postal_code |-> None, rng |-> s]
            ELSE LET s1 == RngNext(s)
                     s2 == RngNext(s1)
                     selected_pc == codes[ChoiceIndex(codes, total, RngOut(s), 1, 0)]
                 IN [err |-> "none",
                     latitude |-> selected_pc.latitude + NormalOffset(RngOut(s1)),
                     longitude |-> selected_pc.longitude + NormalOffset(RngOut(s2)),
                     postal_code |-> Some(selected_pc.postal_code),
                     rng |-> RngNext(s2)]
    ELSE LET s1 == RngNext(s)
             angle == RngOut(s)
             r == (RngOut(s1) * Val(m.radius_km)) \div 4
         IN [err |-> "none",
             latitude |-> Val(m.center_lat) + r * CosQuarter(angle),
             longitude |-> Val(m.center_lon) + r * SinQuarter(angle),
             postal_code |-> None,
             rng |-> RngNext(s1)]

\* -------------------------------------------------------------- Simulator
Offer(c, lat, lon) ==
    [contractor_id |-> c.contractor_id,
     distance |-> Cleaner_calculate_distance_to(c, lat, lon),
     cleaner_score |-> c.cleaner_score,
     active |-> c.bidding_active,
     team_size |-> c.team_size,
     active_connections |-> c.active_connections]

Bid(o) ==
    [contractor_id |-> o.contractor_id, distance |-> o.distance,
     cleaner_score |-> o.cleaner_score, active |-> o.active,
     team_size |-> o.team_size, active_connections |-> o.active_connections,
     bid_amount |-> None, bid_time |-> None]

Connection(b) ==
    [contractor_id |-> b.contractor_id, distance |-> b.distance,
     cleaner_score |-> b.cleaner_score, active |-> b.active,
     team_size |-> b.team_size, active_connections |-> b.active_connections,
     bid_amount |-> None, bid_time |-> None, connection_time |-> None]

\* Simulator._generate_offers
_generate_offers(in_range, lat, lon) ==
    [ k \in 1..Len(in_range) |-> Offer(in_range[k], lat, lon) ]

\* The bid probability of _simulate_bids, scaled by 100^4.
BidProbability(cfg, o) ==
    LET base_prob == cfg.cleaner_base_bid_probability
        distance_factor == np_exp_neg(cfg.distance_decay_factor * o.distance)
        quality_factor == o.cleaner_score
        capacity_factor ==
            Max2(cfg.min_capacity_factor,
                 100 - (100 * o.active_connections) \div (o.team_size * 10))
    IN base_prob * distance_factor * quality_factor * capacity_factor

\* Mutant: inactive offers are not skipped.
OfferSkippedNever(o) == FALSE

\* "if not offer.active: continue" of _simulate_bids.
OfferSkipped(o) == ~o.active

\* Mutant: a draw is made for an inactive offer too, and thrown away.
RECURSIVE BidsFromDrawAll(_, _, _, _)
BidsFromDrawAll(cfg, offers, k, s) ==
    IF k > Len(offers) THEN [bids |-> << >>, rng |-> s]
    ELSE LET rest == BidsFromDrawAll(cfg, offers, k + 1, RngNext(s))
         IN IF ~OfferSkipped(offers[k])
               /\ RngOut(s) * 100000000 < BidProbability(cfg, offers[k]) * 4
            THEN [bids |-> << Bid(offers[k]) >> \o rest.bids, rng |-> rest.rng]
            ELSE rest

\* Simulator._simulate_bids from offer k on, with generator state s.
RECURSIVE BidsFrom(_, _, _, _)
BidsFrom(cfg, offers, k, s) ==
    IF k > Len(offers) THEN [bids |-> << >>, rng |-> s]
    ELSE IF OfferSkipped(offers[k]) THEN BidsFrom(cfg, offers, k + 1, s)
    ELSE LET rest == BidsFrom(cfg, offers, k + 1, RngNext(s))
         IN IF RngOut(s) * 100000000 < BidProbability(cfg, offers[k]) * 4
            THEN [bids |-> << Bid(offers[k]) >> \o rest.bids, rng |-> rest.rng]
            ELSE rest

_simulate_bids(cfg, offers, s) == BidsFrom(cfg, offers, 1, s)

\* Mutant: a bid is placed before the bids of equal score that precede it.
RECURSIVE InsertByScoreStrict(_, _)
InsertByScoreStrict(b, sorted) ==
    IF sorted = << >> THEN << b >>
    ELSE IF Head(sorted).cleaner_score > b.cleaner_score
         THEN << Head(sorted) >> \o InsertByScoreStrict(b, Tail(sorted))
         ELSE << b >> \o sorted

\* sorted(bids, key=cleaner_score, reverse=True): stable, equal scores keep
\* their order.
RECURSIVE InsertByScore(_, _)
InsertByScore(b, sorted) ==
    IF sorted = << >> THEN << b >>
    ELSE IF Head(sorted).cleaner_score >= b.cleaner_score
         THEN << Head(sorted) >> \o InsertByScore(b, Tail(sorted))
         ELSE << b >> \o sorted

RECURSIVE SortedByScore(_)
SortedByScore(bids) ==
    IF bids = << >> THEN << >>
    ELSE InsertByScore(bids[Len(bids)], SortedByScore(SubSeq(bids, 1, Len(bids) - 1)))

\* The connection probability of _simulate_connections, scaled by 100^3.
ConnectionProbability(cfg, b) ==
    cfg.connection_base_probability * b.cleaner_score
        * np_exp_neg(cfg.distance_decay_factor * b.distance)

\* The walk over the sorted bids: a successful draw returns at once.
RECURSIVE ConnectFrom(_, _, _, _)
ConnectFrom(cfg, sorted_bids, k, s) ==
    IF k > Len(sorted_bids) THEN [connections |-> << >>, rng |-> s]
    ELSE IF RngOut(s) * 1000000 < ConnectionProbability(cfg, sorted_bids[k]) * 4
         THEN [connections |-> << Connection(sorted_bids[k]) >>, rng |-> RngNext(s)]
         ELSE ConnectFrom(cfg, sorted_bids, k + 1, RngNext(s))

\* Mutant: the walk does not stop at the first success.
RECURSIVE ConnectAllFrom(_, _, _, _)
ConnectAllFrom(cfg, sorted_bids, k, s) ==
    IF k > Len(sorted_bids) THEN [connections |-> << >>, rng |-> s]
    ELSE LET rest == ConnectAllFrom(cfg, sorted_bids, k + 1, RngNext(s))
         IN IF RngOut(s) * 1000000 < ConnectionProbability(cfg, sorted_bids[k]) * 4
            THEN [connections |-> << Connection(sorted_bids[k]) >> \o rest.connections,
                  rng |-> rest.rng]
            ELSE rest

_simulate_connections_all(cfg, bids, s) ==
    IF bids = << >> THEN [connections |-> << >>, rng |-> s]
    ELSE ConnectAllFrom(cfg, SortedByScore(bids), 1, s)

\* Simulator._simulate_connections
_simulate_connections(cfg, bids, s) ==
    IF bids = << >> THEN [connections |-> << >>, rng |-> s]
    ELSE ConnectFrom(cfg, SortedByScore(bids), 1, s)

\* Mutant: SearchResult accepts any coordinates.
SearchResult_post_init_raises_never(latitude, longitude) == FALSE

\* SearchResult.__post_init__: TRUE when it raises ValueError.
SearchResult_post_init_raises(latitude, longitude) ==
    \/ ~(-MaxLat <= latitude /\ latitude <= MaxLat)
    \/ ~(-MaxLon <= longitude /\ longitude <= MaxLon)

NoResult ==
    [search_id |-> 0, latitude |-> 0, longitude |-> 0, postal_code |-> None,
     offers |-> << >>, bids |-> << >>, connections |-> << >>]

\* Simulator.simulate_search from generator state s; id is the value uuid4
\* yields if it is called.  uuid tells whether it was called.
simulate_search(m, reg, cfg, s, id) ==
    LET loc == sample_location_by_tam(m, s)
        found == get_cleaners_in_range(reg, loc.latitude, loc.longitude,
                                       cfg.search_radius_km)
    IN IF loc.err # "none"
       THEN [err |-> loc.err, result |-> NoResult, rng |-> loc.rng, uuid |-> FALSE]
       ELSE IF SearchResult_post_init_raises(loc.latitude, loc.longitude)
       THEN [err |-> "ValueError", result |-> NoResult, rng |-> loc.rng,
             uuid |-> TRUE]
       ELSE IF found.err # "none"
       THEN [err |-> found.err, result |-> NoResult, rng |-> loc.rng,
             uuid |-> TRUE]
       ELSE LET in_range == Val(found.in_range)
                offers == _generate_offers(in_range, loc.latitude, loc.longitude)
                b == _simulate_bids(cfg, offers, loc.rng)
                c == IF b.bids # << >>
                     THEN _simulate_connections(cfg, b.bids, b.rng)
                     ELSE [connections |-> << >>, rng |-> b.rng]
            IN [err |-> "none",
                result |-> [search_id |-> id,
                            latitude |-> loc.latitude,
                            longitude |-> loc.longitude,
                            postal_code |-> loc.postal_code,
                            offers |-> offers,
                            bids |-> b.bids,
                            connections |-> c.connections],
                rng |-> c.rng,
                uuid |-> TRUE]

\* "iterations or self.config.search_iterations"
IterationsOrDefault(iters, cfg) ==
    IF IsNone(iters) \/ Val(iters) = 0 THEN cfg.search_iterations ELSE Val(iters)

\* SimulationConfig.__post_init__: "if self.random_seed is not None:
\* np.random.seed(self.random_seed)".
SeedAtConfigInit(cfg, s) ==
    IF ~IsNone(cfg.random_seed) THEN np_random_seed(Val(cfg.random_seed)) ELSE s

\* Mutant: run_simulation does not re-seed.
SeedNever(cfg, s) == s

\* Mutant: only the first run of a Simulator seeds.
SeedOnFirstRunOnly(cfg, s) ==
    IF ~IsNone(cfg.random_seed) /\ runNo = 0
    THEN np_random_seed(Val(cfg.random_seed))
    ELSE s

\* The generator state run_simulation starts drawing from.
SeedAtRunStart(cfg, s) ==
    IF ~IsNone(cfg.random_seed) THEN np_random_seed(Val(cfg.random_seed)) ELSE s

\* ---------------------------------------------------------------- metrics
\* A fresh MarketMetrics.  distances and cleaner_scores are defaultdict(list):
\* a key never written reads as the empty list.
MarketMetrics ==
    [ geographic |-> [search_points |-> << >>, connection_points |-> << >>],
      search_count |-> 0,
      connection_count |-> 0,
      bid_counts |-> << >>,
      distances |-> [offer |-> << >>, bid |-> << >>, connection |-> << >>],
      cleaner_scores |-> [offer |-> << >>, bid |-> << >>, connection |-> << >>] ]

\* [x.distance for x in recs] and [x.cleaner_score for x in recs]
DistancesOf(recs) == [ k \in 1..Len(recs) |-> recs[k].distance ]
ScoresOf(recs) == [ k \in 1..Len(recs) |-> recs[k].cleaner_score ]

\* Mutant: one connection point is recorded per connection of the result.
GeographicMetrics_add_search_per_connection(g, result) ==
    [ search_points |->
          Append(g.search_points, << result.latitude, result.longitude >>),
      connection_points |->
          g.connection_points
              \o [ k \in 1..Len(result.connections) |->
                     << result.latitude, result.longitude >> ] ]

\* GeographicMetrics.add_search
GeographicMetrics_add_search(g, result) ==
    [ search_points |->
          Append(g.search_points, << result.latitude, result.longitude >>),
      connection_points |->
          IF result.connections # << >>
          THEN Append(g.connection_points, << result.latitude, result.longitude >>)
          ELSE g.connection_points ]

\* Mutant: a search with connections counts as one connection.
MarketMetrics_add_result_one_per_search(mm, result) ==
    [ geographic |-> GeographicMetrics_add_search(mm.geographic, result),
      search_count |-> mm.search_count + 1,
      connection_count |->
          mm.connection_count + (IF result.connections # << >> THEN 1 ELSE 0),
      bid_counts |-> Append(mm.bid_counts, Len(result.bids)),
      distances |->
          [offer |-> mm.distances.offer \o DistancesOf(result.offers),
           bid |-> mm.distances.bid \o DistancesOf(result.bids),
           connection |-> mm.distances.connection \o DistancesOf(result.connections)],
      cleaner_scores |->
          [offer |-> mm.cleaner_scores.offer \o ScoresOf(result.offers),
           bid |-> mm.cleaner_scores.bid \o ScoresOf(result.bids),
           connection |->
               mm.cleaner_scores.connection \o ScoresOf(result.connections)] ]

\* MarketMetrics.add_result
MarketMetrics_add_result(mm, result) ==
    [ geographic |-> GeographicMetrics_add_search(mm.geographic, result),
      search_count |-> mm.search_count + 1,
      connection_count |-> mm.connection_count + Len(result.connections),
      bid_counts |-> Append(mm.bid_counts, Len(result.bids)),
      distances |->
          [offer |-> mm.distances.offer \o DistancesOf(result.offers),
           bid |-> mm.distances.bid \o DistancesOf(result.bids),
           connection |-> mm.distances.connection \o DistancesOf(result.connections)],
      cleaner_scores |->
          [offer |-> mm.cleaner_scores.offer \o ScoresOf(result.offers),
           bid |-> mm.cleaner_scores.bid \o ScoresOf(result.bids),
           connection |->
               mm.cleaner_scores.connection \o ScoresOf(result.connections)] ]

\* "for result in results: self.market_metrics.add_result(result)"
RECURSIVE FoldResults(_, _)
FoldResults(mm, rs) ==
    IF rs = << >> THEN mm
    ELSE FoldResults(MarketMetrics_add_result(mm, Head(rs)), Tail(rs))

\* A dict of metrics is a function from its keys to numbers; rates and means are
\* percentages.
EmptyDict == << >>
\* d.update(e)
DictUpdate(d, e) == e @@ d

RECURSIVE SumSeq(_)
SumSeq(xs) == IF xs = << >> THEN 0 ELSE Head(xs) + SumSeq(Tail(xs))

\* np.mean
np_mean(xs) == (100 * SumSeq(xs)) \div Len(xs)

RECURSIVE InsertAscending(_, _)
InsertAscending(x, sorted) ==
    IF sorted = << >> THEN << x >>
    ELSE IF Head(sorted) <= x
         THEN << Head(sorted) >> \o InsertAscending(x, Tail(sorted))
         ELSE << x >> \o sorted

RECURSIVE SortAscending(_)
SortAscending(xs) ==
    IF xs = << >> THEN << >>
    ELSE InsertAscending(Head(xs), SortAscending(Tail(xs)))

\* np.median
np_median(xs) ==
    LET t == SortAscending(xs)
        n == Len(xs)
    IN IF n % 2 = 1 THEN 100 * t[(n + 1) \div 2]
       ELSE (100 * (t[n \div 2] + t[n \div 2 + 1])) \div 2

\* Reading market.total_area.  Market defines the fields market_id,
\* postal_codes, center_lat, center_lon, radius_km and cleaners and the property
\* total_str_tam; it has no attribute total_area and nothing assigns one, so the
\* read raises AttributeError.
Market_total_area(m) == [err |-> "AttributeError"]

\* GeographicMetrics.calculate_coverage_metrics(market): err is "none" or
\* "AttributeError".  With no search recorded it returns the empty dict; with
\* one it reads market.total_area first, and that read raises, so the lines
\* after it are never reached.
calculate_coverage_metrics(g, m) ==
    IF g.search_points = << >>
    THEN [err |-> "none", metrics |-> EmptyDict]
    ELSE [err |-> Market_total_area(m).err, metrics |-> EmptyDict]

\* The connection rate of calculate_metrics.
ConnectionRate(mm) ==
    IF mm.search_count > 0
    THEN (100 * mm.connection_count) \div mm.search_count
    ELSE 0

\* "Bid metrics" of calculate_metrics.
BidMetrics(mm) ==
    IF mm.bid_counts # << >>
    THEN ("avg_bids_per_search" :> np_mean(mm.bid_counts))
         @@ ("med_bids_per_search" :> np_median(mm.bid_counts))
         @@ ("pct_searches_with_bids" :>
                np_mean([ k \in 1..Len(mm.bid_counts) |->
                            IF mm.bid_counts[k] > 0 THEN 1 ELSE 0 ]))
    ELSE EmptyDict

\* "Distance metrics" and "Score metrics" of calculate_metrics for one list.
AvgMed(xs, avg_key, med_key) ==
    IF xs # << >>
    THEN (avg_key :> np_mean(xs)) @@ (med_key :> np_median(xs))
    ELSE EmptyDict

\* MarketMetrics.calculate_metrics(market)
MarketMetrics_calculate_metrics(mm, m) ==
    LET m1 == "connection_rate" :> ConnectionRate(mm)
        m2 == DictUpdate(m1, BidMetrics(mm))
        m3 == DictUpdate(DictUpdate(DictUpdate(m2,
                  AvgMed(mm.distances.offer, "avg_offer_distance",
                         "med_offer_distance")),
                  AvgMed(mm.distances.bid, "avg_bid_distance", "med_bid_distance")),
                  AvgMed(mm.distances.connection, "avg_connection_distance",
                         "med_connection_distance"))
        m4 == DictUpdate(DictUpdate(DictUpdate(m3,
                  AvgMed(mm.cleaner_scores.offer, "avg_offer_score",
                         "med_offer_score")),
                  AvgMed(mm.cleaner_scores.bid, "avg_bid_score", "med_bid_score")),
                  AvgMed(mm.cleaner_scores.connection, "avg_connection_score",
                         "med_connection_score"))
        coverage == calculate_coverage_metrics(mm.geographic, m)
    IN IF coverage.err # "none"
       THEN [err |-> coverage.err, metrics |-> EmptyDict]
       ELSE [err |-> "none", metrics |-> DictUpdate(m4, coverage.metrics)]

\* ------------------------------------------------------------------ actions
Init ==
    /\ config = None
    /\ market = None
    /\ cleaners = << >>
    /\ rng \in RngStates
    /\ uuidCalls = 0
    /\ ctorArgs = None
    /\ ctorRaised = FALSE
    /\ addArg = None
    /\ addRaised = FALSE
    /\ nAdds = 0
    /\ iterations = None
    /\ n_iter = 0
    /\ results = << >>
    /\ trials = 0
    /\ runNo = 0
    /\ prevRun = None
    /\ pc = "new"
    /\ op = "none"
    /\ args = << >>
    /\ ret = << >>
    /\ market_metrics = MarketMetrics
    /\ sm_results = << >>
    /\ nAddResults = 0
    /\ metricsOut = None

\* Market(market_id, postal_codes, center_lat, center_lon, radius_km)
MarketConstruct ==
    /\ pc = "new"
    /\ \E a \in MarketArgs :
         /\ ctorArgs' = Some(a)
         /\ IF Market_post_init_raises(a)
            THEN /\ ctorRaised' = TRUE
                 /\ market' = None
                 /\ pc' = "failed"
            ELSE /\ ctorRaised' = FALSE
                 /\ market' = Some(a)
                 /\ pc' = "setup"
    /\ cleaners' = << >>
    /\ UNCHANGED << config, rng, uuidCalls, addVars, runVars, callVars, metricVars >>

\* Mutant: the registry is written before the cleaner is validated.
AddCleanerStoreFirst ==
    /\ pc = "setup"
    /\ nAdds < MaxAdds
    /\ \E c \in CleanerPool :
         /\ addArg' = Some(c)
         /\ addRaised' = add_cleaner_raises(Val(market), c)
         /\ cleaners' = DictPut(cleaners, c)
    /\ nAdds' = nAdds + 1
    /\ UNCHANGED << config, market, rng, uuidCalls, ctorArgs, ctorRaised, runVars, pc,
                    callVars, metricVars >>

\* Market.add_cleaner(cleaner)
AddCleaner ==
    /\ pc = "setup"
    /\ nAdds < MaxAdds
    /\ \E c \in CleanerPool :
         /\ addArg' = Some(c)
         /\ IF add_cleaner_raises(Val(market), c)
            THEN /\ addRaised' = TRUE
                 /\ cleaners' = cleaners
            ELSE /\ addRaised' = FALSE
                 /\ cleaners' = DictPut(cleaners, c)
    /\ nAdds' = nAdds + 1
    /\ UNCHANGED << config, market, rng, uuidCalls, ctorArgs, ctorRaised, runVars, pc,
                    callVars, metricVars >>

\* SimulationConfig(...) followed by Simulator(market, config).  The config
\* constructor validates, then seeds the generator when a seed is given; when
\* it raises there is no config and no Simulator.
SimulatorConstruct ==
    /\ pc = "setup"
    /\ \E cfg \in ConfigArgs :
         /\ SimulationConfig_post_init(cfg) = "none"
         /\ config' = Some(cfg)
         /\ rng' = SeedAtConfigInit(cfg, rng)
    /\ addArg' = None
    /\ addRaised' = FALSE
    /\ nAdds' = 0
    /\ pc' = "ready"
    /\ UNCHANGED << marketVars, uuidCalls, runVars, callVars, metricVars >>

\* Simulator.run_simulation(iterations), up to its loop.
RunBegin(it) ==
    /\ iterations' = it
    /\ n_iter' = IterationsOrDefault(it, Val(config))
    /\ rng' = SeedAtRunStart(Val(config), rng)
    /\ results' = << >>
    /\ trials' = 0
    /\ runNo' = runNo + 1
    /\ pc' = "running"
    /\ UNCHANGED << config, marketVars, uuidCalls, addVars, callVars, metricVars >>

\* The first run_simulation call on a Simulator.
RunStart ==
    /\ pc = "ready"
    /\ \E it \in {None} \cup { Some(k) : k \in 0..MaxIter } : RunBegin(it)
    /\ prevRun' = None

\* The same call repeated on the same Simulator after a run has returned.
RunAgain ==
    /\ pc = "returned"
    /\ runNo < MaxRuns
    /\ RunBegin(iterations)
    /\ prevRun' = Some([iterations |-> iterations, results |-> results])

\* Mutant: a connection is booked on the connected cleaner's registry entry.
SimulateSearchBooking ==
    /\ pc = "running"
    /\ Len(results) < n_iter
    /\ LET r == simulate_search(Val(market), cleaners, Val(config), rng,
                                uuidCalls + 1)
       IN /\ rng' = r.rng
          /\ uuidCalls' = IF r.uuid THEN uuidCalls + 1 ELSE uuidCalls
          /\ cleaners' =
                [ k \in 1..Len(cleaners) |->
                    IF \E j \in 1..Len(r.result.connections) :
                         r.result.connections[j].contractor_id
                             = cleaners[k].contractor_id
                    THEN [cleaners[k] EXCEPT
                            !.active_connections = cleaners[k].active_connections + 1]
                    ELSE cleaners[k] ]
          /\ IF r.err = "none"
             THEN /\ results' = Append(results, r.result)
                  /\ pc' = "running"
             ELSE /\ results' = << >>
                  /\ pc' = "raised"
    /\ trials' = trials + 1
    /\ UNCHANGED << config, market, ctorArgs, ctorRaised, addVars, loopVars,
                    callVars, metricVars >>

\* One pass of run_simulation's loop: result = simulate_search(); append.
SimulateSearch ==
    /\ pc = "running"
    /\ Len(results) < n_iter
    /\ LET r == simulate_search(Val(market), cleaners, Val(config), rng,
                                uuidCalls + 1)
       IN /\ rng' = r.rng
          /\ uuidCalls' = IF r.uuid THEN uuidCalls + 1 ELSE uuidCalls
          /\ IF r.err = "none"
             THEN /\ results' = Append(results, r.result)
                  /\ pc' = "running"
             ELSE /\ results' = << >>
                  /\ pc' = "raised"
    /\ trials' = trials + 1
    /\ UNCHANGED << config, marketVars, addVars, loopVars, callVars, metricVars >>

\* run_simulation's "return results".
RunReturn ==
    /\ pc = "running"
    /\ Len(results) >= n_iter
    /\ pc' = "returned"
    /\ UNCHANGED << config, marketVars, rng, uuidCalls, addVars, runVars, callVars, metricVars >>

Next ==
    \/ MarketConstruct
    \/ AddCleaner
    \/ SimulatorConstruct
    \/ RunStart
    \/ SimulateSearch
    \/ RunReturn

\* A Market's life from construction to the end of one simulation run.
Spec == Init /\ [][Next]_vars

\* ---------------------------------------------------------- repeated runs
\* SimulationRunner.setup_postal_code_market / setup_location_market: construct,
\* then add_cleaner for each cleaner of the roster in turn.
RECURSIVE SetupCleaners(_, _)
SetupCleaners(roster, reg) ==
    IF roster = << >> THEN reg
    ELSE SetupCleaners(Tail(roster), DictPut(reg, Head(roster)))

PostalRoster ==
    << Cleaner("c1", 0, 0, Some("p1"), TRUE, 80, 2, 5),
       Cleaner("c2", 1, 1, Some("p2"), FALSE, 50, 1, 12) >>

LocationRoster ==
    << Cleaner("c3", 0, 1, None, TRUE, 80, 1, 0),
       Cleaner("c2", 1, 1, Some("p2"), FALSE, 50, 1, 12),
       Cleaner("c1", 1, 0, Some("p2"), TRUE, 100, 1, 0) >>

PostalArgs(codes) ==
    [postal_codes |-> Some(codes), center_lat |-> None, center_lon |-> None,
     radius_km |-> None]

LocationArgs(lat, lon, radius) ==
    [postal_codes |-> None, center_lat |-> Some(lat), center_lon |-> Some(lon),
     radius_km |-> Some(radius)]

SetupMarkets ==
    { [args |-> PostalArgs(TwoCodes), roster |-> PostalRoster],
      [args |-> PostalArgs(ZeroTam), roster |-> << >>],
      [args |-> LocationArgs(0, 0, 2), roster |-> LocationRoster] }

\* A set-up Market of the set markets handed to a Simulator with a constructed
\* config.
ReadyOver(markets) ==
    /\ \E sm \in markets :
         /\ ~Market_post_init_raises(sm.args)
         /\ \A k \in 1..Len(sm.roster) : ~add_cleaner_raises(sm.args, sm.roster[k])
         /\ market = Some(sm.args)
         /\ ctorArgs = Some(sm.args)
         /\ cleaners = SetupCleaners(sm.roster, << >>)
    /\ config \in { Some(cfg) : cfg \in Configs }
    /\ rng \in RngStates
    /\ uuidCalls = 0
    /\ ctorRaised = FALSE
    /\ addArg = None
    /\ addRaised = FALSE
    /\ nAdds = 0
    /\ iterations = None
    /\ n_iter = 0
    /\ results = << >>
    /\ trials = 0
    /\ runNo = 0
    /\ prevRun = None
    /\ pc = "ready"
    /\ op = "none"
    /\ args = << >>
    /\ ret = << >>
    /\ market_metrics = MarketMetrics
    /\ sm_results = << >>
    /\ nAddResults = 0
    /\ metricsOut = None

InitReady == ReadyOver(SetupMarkets)

NextRuns ==
    \/ RunStart
    \/ RunAgain
    \/ SimulateSearch
    \/ RunReturn

\* Consecutive runs of one Simulator over a set-up Market.
SpecRuns == InitReady /\ [][NextRuns]_vars

\* ------------------------------------------------------------ direct calls
\* A Market whose mapping holds a code of weight 0 before and after a code of
\* positive weight.
MixedTam ==
    << PostalCode("p0", 0, 0, 0), PostalCode("p1", 0, 1, 2),
       PostalCode("p2", 1, 0, 0) >>

OneCode == << PostalCode("p1", 0, 0, 5) >>

\* The set-up Markets that callers query directly.
CallMarkets ==
    SetupMarkets \cup
        { [args |-> PostalArgs(MixedTam), roster |-> PostalRoster],
          [args |-> PostalArgs(OneCode),
           roster |-> << Cleaner("c1", 0, 0, Some("p1"), TRUE, 80, 2, 5) >>],
          [args |-> PostalArgs(<< >>), roster |-> << >>] }

\* The radii a caller passes to get_cleaners_in_range.
QueryRadii == -1..2

\* A set-up Market before a caller's call on it.
InitCalls ==
    /\ \E sm \in CallMarkets :
         /\ ~Market_post_init_raises(sm.args)
         /\ \A k \in 1..Len(sm.roster) : ~add_cleaner_raises(sm.args, sm.roster[k])
         /\ market = Some(sm.args)
         /\ ctorArgs = Some(sm.args)
         /\ cleaners = SetupCleaners(sm.roster, << >>)
    /\ config = None
    /\ rng \in RngStates
    /\ uuidCalls = 0
    /\ ctorRaised = FALSE
    /\ addArg = None
    /\ addRaised = FALSE
    /\ nAdds = 0
    /\ iterations = None
    /\ n_iter = 0
    /\ results = << >>
    /\ trials = 0
    /\ runNo = 0
    /\ prevRun = None
    /\ pc = "setup"
    /\ op = "none"
    /\ args = << >>
    /\ ret = << >>
    /\ market_metrics = MarketMetrics
    /\ sm_results = << >>
    /\ nAddResults = 0
    /\ metricsOut = None

\* market.get_cleaners_in_range(lat, lon, radius_km)
CallGetCleanersInRange ==
    /\ pc = "setup"
    /\ \E lat \in -MaxLat..MaxLat, lon \in -MaxLon..MaxLon, radius_km \in QueryRadii :
         /\ op' = "get_cleaners_in_range"
         /\ args' = [lat |-> lat, lon |-> lon, radius_km |-> radius_km]
         /\ ret' = get_cleaners_in_range(cleaners, lat, lon, radius_km)
    /\ pc' = "called"
    /\ UNCHANGED << config, marketVars, rng, uuidCalls, addVars, runVars,
                    metricVars >>

\* market.sample_location_by_tam()
CallSampleLocation ==
    /\ pc = "setup"
    /\ LET r == sample_location_by_tam(Val(market), rng)
       IN /\ op' = "sample_location_by_tam"
          /\ args' = << >>
          /\ ret' = [err |-> r.err,
                     location |-> IF r.err = "none"
                                  THEN Some([latitude |-> r.latitude,
                                             longitude |-> r.longitude,
                                             postal_code |-> r.postal_code])
                                  ELSE None]
          /\ rng' = r.rng
    /\ pc' = "called"
    /\ UNCHANGED << config, marketVars, uuidCalls, addVars, runVars, metricVars >>

NextCalls ==
    \/ CallGetCleanersInRange
    \/ CallSampleLocation

\* Direct calls of a caller on a set-up Market and on the models' pure methods.
SpecCalls == InitCalls /\ [][NextCalls]_vars

\* ----------------------------------------------------- calls on the models
\* The cleaners a caller asks for a bid probability: those of CleanerPool, one
\* with the lowest valid score, one at capacity and one beyond it.
BidCleaners ==
    CleanerPool \cup
        { Cleaner("c5", 0, 0, None, TRUE, 0, 1, 0),
          Cleaner("c6", 0, 0, None, TRUE, 100, 1, 10),
          Cleaner("c7", 0, 0, None, TRUE, 100, 2, 25) }

\* Distances between two points of the grid.
Distances == 0..(MaxLat + MaxLon)

\* Base probabilities (0, the two defaults 0.14 and 0.4, 1) and distance decay
\* factors (0 and the default 0.2) that pass SimulationConfig's validation.
BaseProbabilities == {0, 14, 40, 100}
DecayFactors == {0, 2}

\* cleaner.calculate_bid_probability(distance, distance_decay_factor,
\* base_probability)
CallCalculateBidProbability ==
    /\ pc = "new"
    /\ \E c \in BidCleaners, d \in Distances, k \in DecayFactors,
          b \in BaseProbabilities :
         /\ op' = "calculate_bid_probability"
         /\ args' = [cleaner |-> c, distance |-> d, distance_decay_factor |-> k,
                     base_probability |-> b]
         /\ ret' = Cleaner_calculate_bid_probability(c, d, k, b)
    /\ pc' = "called"
    /\ UNCHANGED << config, marketVars, rng, uuidCalls, addVars, runVars,
                    metricVars >>

\* Capacity floors that pass SimulationConfig's validation: the default 0.1
\* and 1.
CapacityFloors == {10, 100}

\* A configuration with the probability parameters a Simulator reads.
ProbabilityConfig(b, cn, k, m) ==
    [SimulationConfig(1, 1, None, 2, b, cn) EXCEPT
        !.distance_decay_factor = k, !.min_capacity_factor = m]

\* The Offer made to cleaner c for a search at distance d.
OfferAt(c, d) == [Offer(c, c.latitude, c.longitude) EXCEPT !.distance = d]

\* _simulate_bids' probability for one offer.
SimulatorBidProbability ==
    /\ pc = "new"
    /\ \E b \in BaseProbabilities, k \in DecayFactors, m \in CapacityFloors,
          c \in BidCleaners, d \in Distances :
         LET cfg == ProbabilityConfig(b, 40, k, m)
         IN /\ op' = "bid_probability"
            /\ args' = [config |-> cfg, offer |-> OfferAt(c, d)]
            /\ ret' = BidProbability(cfg, OfferAt(c, d))
    /\ pc' = "called"
    /\ UNCHANGED << config, marketVars, rng, uuidCalls, addVars, runVars,
                    metricVars >>

\* _simulate_connections' probability for one bid.
SimulatorConnectionProbability ==
    /\ pc = "new"
    /\ \E cn \in BaseProbabilities, k \in DecayFactors,
          c \in BidCleaners, d \in Distances :
         LET cfg == ProbabilityConfig(14, cn, k, 10)
         IN /\ op' = "connection_probability"
            /\ args' = [config |-> cfg, bid |-> Bid(OfferAt(c, d))]
            /\ ret' = ConnectionProbability(cfg, Bid(OfferAt(c, d)))
    /\ pc' = "called"
    /\ UNCHANGED << config, marketVars, rng, uuidCalls, addVars, runVars,
                    metricVars >>

\* The bids a bid list is made of: two of equal score, one of a higher and one
\* of a lower score.
BidPool ==
    { Bid(OfferAt(Cleaner("c1", 0, 0, Some("p1"), TRUE, 80, 2, 5), 0)),
      Bid(OfferAt(Cleaner("c3", 0, 1, None, TRUE, 80, 1, 0), 1)),
      Bid(OfferAt(Cleaner("c6", 0, 0, None, TRUE, 100, 1, 10), 0)),
      Bid(OfferAt(Cleaner("c4", MaxLat, MaxLon, Some("zz"), TRUE, 60, 1, 0), 1)) }

\* The bid lists of a search: up to three different bids, in any order.
BidLists ==
    { bl \in UNION { [1..n -> BidPool] : n \in 0..3 } :
        \A i, j \in 1..Len(bl) : i # j => bl[i] # bl[j] }

\* self._simulate_connections(bids) with the generator in state rng.
CallSimulateConnections ==
    /\ pc = "new"
    /\ \E bids \in BidLists, cn \in {40, 100}, k \in DecayFactors :
         LET cfg == ProbabilityConfig(14, cn, k, 10)
             r == _simulate_connections(cfg, bids, rng)
         IN /\ op' = "_simulate_connections"
            /\ args' = [config |-> cfg, bids |-> bids, rng |-> rng]
            /\ ret' = r
            /\ rng' = r.rng
    /\ pc' = "called"
    /\ UNCHANGED << config, marketVars, uuidCalls, addVars, runVars, metricVars >>

\* SimulationConfig(...) on its own: the error its validation raises, if any.
CallSimulationConfig ==
    /\ pc = "new"
    /\ \E cfg \in ConfigArgs :
         /\ op' = "SimulationConfig"
         /\ args' = cfg
         /\ ret' = [err |-> SimulationConfig_post_init(cfg)]
    /\ pc' = "called"
    /\ UNCHANGED << config, marketVars, rng, uuidCalls, addVars, runVars,
                    metricVars >>

\* SimulationConfig.from_dict(cfg.asdict()) for a constructed cfg; each of the
\* two constructions seeds the generator when a seed is given.
CallConfigRoundTrip ==
    /\ pc = "new"
    /\ \E cfg \in ConfigArgs :
         /\ SimulationConfig_post_init(cfg) = "none"
         /\ op' = "from_dict_asdict"
         /\ args' = cfg
         /\ ret' = SimulationConfig_from_dict(SimulationConfig_asdict(cfg))
         /\ rng' = SeedAtConfigInit(cfg, rng)
    /\ pc' = "called"
    /\ UNCHANGED << config, marketVars, uuidCalls, addVars, runVars, metricVars >>

NextModels ==
    \/ CallSimulateConnections
    \/ CallConfigRoundTrip
    \/ CallCalculateBidProbability
    \/ SimulatorBidProbability
    \/ SimulatorConnectionProbability
    \/ CallSimulationConfig

\* Direct calls on the methods of Cleaner, Simulator and SimulationConfig.
SpecModels == Init /\ [][NextModels]_vars

\* ------------------------------------------------------- SimulationMetrics
\* A SearchResult built by a caller, as the tests build theirs: two offers, the
\* first of which bid and was connected.
ManualResult(id, n_connections) ==
    LET c1 == Cleaner("c1", 0, 0, Some("p1"), TRUE, 80, 2, 5)
        c2 == Cleaner("c2", 1, 1, Some("p2"), TRUE, 90, 3, 3)
        conn == Connection(Bid(OfferAt(c1, 1)))
    IN [search_id |-> id, latitude |-> 0, longitude |-> 0,
        postal_code |-> Some("p1"),
        offers |-> << OfferAt(c1, 1), OfferAt(c2, 1) >>,
        bids |-> << Bid(OfferAt(c1, 1)) >>,
        connections |-> [ k \in 1..n_connections |-> conn ]]

\* The lists a caller passes to add_results besides a run's results: the empty
\* list, one test-style result, and a result holding two connections.
ManualLists ==
    { << >>, << ManualResult(0, 1) >>, << ManualResult(0, 2) >> }

\* Two postal codes with an area: one larger, one smaller than the disc of a
\* cleaner's service radius (pi * 10^2, about 314).
AreaCodes ==
    << [PostalCode("p1", 0, 0, 1) EXCEPT !.area = Some(400)],
       [PostalCode("p2", 1, 0, 3) EXCEPT !.area = Some(200)] >>

\* The Markets whose metrics are collected: the set-up Markets, a location
\* Market without cleaners and a postal-code Market whose codes have an area.
MetricMarkets ==
    SetupMarkets \cup { [args |-> LocationArgs(0, 0, 2), roster |-> << >>],
                        [args |-> PostalArgs(AreaCodes), roster |-> PostalRoster] }

\* A Simulator and a fresh SimulationMetrics over a set-up Market.
InitMetrics == ReadyOver(MetricMarkets)

\* Mutant: add_results takes the results out of the list it is handed.
AddResultsOfDraining(rs) ==
    /\ sm_results' = sm_results \o rs
    /\ market_metrics' = FoldResults(market_metrics, rs)
    /\ nAddResults' = nAddResults + 1
    /\ results' = << >>
    /\ UNCHANGED << config, marketVars, rng, uuidCalls, addVars, loopVars, trials,
                    pc, callVars, metricsOut >>

\* SimulationMetrics.add_results(results) for a list rs.
AddResultsOf(rs) ==
    /\ sm_results' = sm_results \o rs
    /\ market_metrics' = FoldResults(market_metrics, rs)
    /\ nAddResults' = nAddResults + 1
    /\ UNCHANGED << config, marketVars, rng, uuidCalls, addVars, runVars, pc,
                    callVars, metricsOut >>

\* metrics.add_results(results) with the list the run returned, as
\* SimulationRunner.run_simulation calls it.
AddRunResults ==
    /\ pc = "returned"
    /\ nAddResults < MaxAddResults
    /\ AddResultsOf(results)

\* metrics.add_results(results) with a list the caller built.
AddManualResults ==
    /\ pc = "returned"
    /\ nAddResults < MaxAddResults
    /\ \E rs \in ManualLists : AddResultsOf(rs)

\* SimulationMetrics.get_metrics()
GetMetrics ==
    /\ pc = "returned"
    /\ metricsOut' = Some(MarketMetrics_calculate_metrics(market_metrics, Val(market)))
    /\ pc' = "reported"
    /\ UNCHANGED << config, marketVars, rng, uuidCalls, addVars, runVars, callVars,
                    market_metrics, sm_results, nAddResults >>

NextMetrics ==
    \/ RunStart
    \/ SimulateSearch
    \/ RunReturn
    \/ AddRunResults
    \/ AddManualResults
    \/ GetMetrics

\* A run over a set-up Market followed by the collection of its metrics.
SpecMetrics == InitMetrics /\ [][NextMetrics]_vars

\* ===================================================================== claims
Seeded == ~IsNone(config) /\ ~IsNone(Val(config).random_seed)
SameCore(a, b) ==
    /\ a.contractor_id = b.contractor_id
    /\ a.distance = b.distance
    /\ a.cleaner_score = b.cleaner_score
Ids(recs) == { recs[k].contractor_id : k \in 1..Len(recs) }
RegisteredIds == Ids(cleaners)

\* C1: every SearchResult has at most one connection; a connection has the
\* contractor id, distance and score of one of the bids of the same search; a
\* search with no bids has no connection.
C1_AtMostOneConnection ==
    \A k \in 1..Len(results) :
        LET r == results[k]
        IN /\ Len(r.connections) <= 1
           /\ \A j \in 1..Len(r.connections) :
                \E b \in 1..Len(r.bids) : SameCore(r.connections[j], r.bids[b])
           /\ (r.bids = << >> => r.connections = << >>)

\* A search with two bids of which the lower-scored one was not connected.
C1_Witness ==
    \E k \in 1..Len(results) :
        /\ Len(results[k].bids) >= 2
        /\ Len(results[k].connections) = 1

\* C2: the bids are a sub-sequence of the offers (each bid copies id, distance
\* and score of one active offer, at most one bid per offer, in offer order),
\* and an offer of a bid-inactive cleaner never yields a bid.
RECURSIVE BidsWithinOffers(_, _)
BidsWithinOffers(bids, offers) ==
    IF bids = << >> THEN TRUE
    ELSE IF offers = << >> THEN FALSE
    ELSE IF SameCore(Head(bids), Head(offers)) /\ Head(offers).active
         THEN BidsWithinOffers(Tail(bids), Tail(offers))
         ELSE BidsWithinOffers(bids, Tail(offers))

C2_BidsSubsequenceOfOffers ==
    \A k \in 1..Len(results) :
        LET r == results[k]
        IN /\ BidsWithinOffers(r.bids, r.offers)
           /\ \A b \in 1..Len(r.bids) :
                \A c \in Range(cleaners) :
                    c.contractor_id = r.bids[b].contractor_id => c.bidding_active

\* A search that offered an inactive cleaner and an active one, with a bid.
C2_Witness ==
    \E k \in 1..Len(results) :
        /\ \E o \in 1..Len(results[k].offers) : ~results[k].offers[o].active
        /\ Len(results[k].bids) >= 1
        /\ Len(results[k].bids) < Len(results[k].offers)

\* C3: the offers are exactly one Offer per registered cleaner within
\* search_radius_km of the sampled point, active or not, none outside the
\* radius, none twice, and each Offer's active flag is the cleaner's.
C3_OffersExactlyInRange ==
    \A k \in 1..Len(results) :
        LET r == results[k]
            d(c) == calculate_haversine_distance(c.latitude, c.longitude,
                                                 r.latitude, r.longitude)
            offersOf(c) == { o \in 1..Len(r.offers) :
                               r.offers[o].contractor_id = c.contractor_id }
        IN /\ \A c \in Range(cleaners) :
                IF d(c) <= Val(config).search_radius_km
                THEN /\ Cardinality(offersOf(c)) = 1
                     /\ \A o \in offersOf(c) :
                          /\ r.offers[o].active = c.bidding_active
                          /\ r.offers[o].distance = d(c)
                ELSE offersOf(c) = {}
           /\ Ids(r.offers) \subseteq RegisteredIds

\* A search that offered an inactive cleaner, offered a cleaner exactly on the
\* boundary, and left a registered cleaner out.
C3_Witness ==
    \E k \in 1..Len(results) :
        LET r == results[k]
        IN /\ \E o \in 1..Len(r.offers) : ~r.offers[o].active
           /\ \E o \in 1..Len(r.offers) :
                r.offers[o].distance = Val(config).search_radius_km
           /\ Len(r.offers) < Len(cleaners)

\* The SearchResults without their search_id.
Outcomes(rs) ==
    [ k \in 1..Len(rs) |->
        [latitude |-> rs[k].latitude, longitude |-> rs[k].longitude,
         postal_code |-> rs[k].postal_code, offers |-> rs[k].offers,
         bids |-> rs[k].bids, connections |-> rs[k].connections] ]

TwoSeededRuns ==
    /\ pc = "returned"
    /\ ~IsNone(prevRun)
    /\ Seeded
    /\ Val(prevRun).iterations = iterations

C5_ReturnsRequestedCount ==
    pc = "returned" =>
        Len(results) = IF IsNone(iterations)
                       THEN Val(config).search_iterations
                       ELSE Val(iterations)

\* C6: a run as the SimulationRunner starts it (no count given) ends after
\* exactly search_iterations * supply_configuration_iterations search trials.
C6_RunExecutesTotalIterations ==
    (pc = "returned" /\ IsNone(iterations)) =>
        trials = Val(config).search_iterations
                   * Val(config).supply_configuration_iterations

\* The membership rule of a Market m for a cleaner c.
IsMember(m, c) ==
    IF ~IsNone(m.postal_codes)
    THEN /\ ~IsNone(c.postal_code)
         /\ \E k \in 1..Len(Val(m.postal_codes)) :
              Val(m.postal_codes)[k].postal_code = Val(c.postal_code)
    ELSE Abs(Val(m.center_lat) - c.latitude) + Abs(Val(m.center_lon) - c.longitude)
            <= Val(m.radius_km)

\* C7: add_cleaner raises for a cleaner whose postal code is not a key of a
\* postal-code Market, or that is farther than radius_km from the center of a
\* location Market; when it raises, the registry is as before the call.
C7_AddCleanerRaisesAndKeepsRegistry ==
    [][ nAdds' = nAdds + 1 =>
          /\ (~IsMember(Val(market), Val(addArg')) => addRaised')
          /\ (addRaised' => cleaners' = cleaners) ]_vars

\* A rejected cleaner after two cleaners were registered.
C7_Witness ==
    /\ pc = "setup"
    /\ addRaised
    /\ Len(cleaners) >= 2

EntriesOf(reg, id) == { k \in 1..Len(reg) : reg[k].contractor_id = id }

\* C9: a successful add_cleaner(c) leaves the registry mapping c.contractor_id
\* to c; a new id adds one entry, a registered id has its entry replaced and
\* the number of entries unchanged; every other entry is unchanged; ids stay
\* unique.
C9_AddCleanerInsertsOrReplaces ==
    [][ (nAdds' = nAdds + 1 /\ ~addRaised') =>
          LET c == Val(addArg')
              known == EntriesOf(cleaners, c.contractor_id) # {}
          IN /\ \A k \in EntriesOf(cleaners', c.contractor_id) : cleaners'[k] = c
             /\ Cardinality(EntriesOf(cleaners', c.contractor_id)) = 1
             /\ Len(cleaners') = Len(cleaners) + (IF known THEN 0 ELSE 1)
             /\ \A k \in 1..Len(cleaners) :
                  cleaners[k].contractor_id # c.contractor_id
                      => cleaners'[k] = cleaners[k]
             /\ \A k \in 1..Len(cleaners') :
                  Cardinality(EntriesOf(cleaners', cleaners'[k].contractor_id)) = 1
      ]_vars

\* The third call replaced the entry of "c1", registered before "c2".
C9_Witness ==
    /\ pc = "setup"
    /\ nAdds = 3
    /\ ~addRaised
    /\ Len(cleaners) = 2
    /\ Val(addArg) = cleaners[1]
    /\ cleaners[2].contractor_id # cleaners[1].contractor_id

\* C10: a constructed Market is exactly one variant: a non-empty postal-code
\* mapping and no center/radius, or a center and positive radius and no
\* mapping; every other construction fails; the variant never changes.
IsPostalVariant(a) ==
    /\ ~IsNone(a.postal_codes)
    /\ Val(a.postal_codes) # << >>
    /\ IsNone(a.center_lat) /\ IsNone(a.center_lon) /\ IsNone(a.radius_km)

IsLocationVariant(a) ==
    /\ IsNone(a.postal_codes)
    /\ ~IsNone(a.center_lat) /\ ~IsNone(a.center_lon) /\ ~IsNone(a.radius_km)
    /\ Val(a.radius_km) > 0

C10_ExactlyOneVariant ==
    /\ ~IsNone(market) =>
          /\ IsPostalVariant(Val(market)) \/ IsLocationVariant(Val(market))
          /\ ~(IsPostalVariant(Val(market)) /\ IsLocationVariant(Val(market)))
          /\ market = ctorArgs
    /\ (~IsNone(ctorArgs) /\ ~IsPostalVariant(Val(ctorArgs))
            /\ ~IsLocationVariant(Val(ctorArgs))) => ctorRaised

\* The number of times cleaner c occurs in the list lst.
Occurrences(lst, c) == Cardinality({ k \in 1..Len(lst) : lst[k] = c })

\* C11: get_cleaners_in_range(lat, lon, radius_km) returns exactly the
\* registered cleaners whose distance to the point is <= radius_km, the boundary
\* included, each once; with radius_km <= 0 it raises and returns no list.
C11_InRangeExactlyOrRaises ==
    op = "get_cleaners_in_range" =>
        IF args.radius_km <= 0
        THEN ret.err = "ValueError" /\ IsNone(ret.in_range)
        ELSE /\ ret.err = "none"
             /\ ~IsNone(ret.in_range)
             /\ Range(Val(ret.in_range)) \subseteq Range(cleaners)
             /\ \A c \in Range(cleaners) :
                  Occurrences(Val(ret.in_range), c) =
                      IF Abs(c.latitude - args.lat) + Abs(c.longitude - args.lon)
                            <= args.radius_km
                      THEN 1 ELSE 0

\* A query that returned a cleaner exactly on the boundary and another one
\* inside it, and left a registered cleaner out.
C11_Witness ==
    /\ op = "get_cleaners_in_range"
    /\ ret.err = "none"
    /\ Len(Val(ret.in_range)) = 2
    /\ Len(cleaners) = 3
    /\ \E k \in 1..2 :
         Cleaner_calculate_distance_to(Val(ret.in_range)[k], args.lat, args.lon)
             = args.radius_km
    /\ \E k \in 1..2 :
         Cleaner_calculate_distance_to(Val(ret.in_range)[k], args.lat, args.lon)
             < args.radius_km

\* The postal-code mapping of the Market, empty for a location Market.
CodesOf(m) == IF IsNone(m.postal_codes) THEN << >> ELSE Val(m.postal_codes)

\* C12: on a postal-code Market sample_location_by_tam returns a postal code
\* that is a key of the Market and has str_tam > 0; on a location Market the
\* returned postal code is absent.
C12_SampledCodeHasWeight ==
    (op = "sample_location_by_tam" /\ ret.err = "none") =>
        LET loc == Val(ret.location)
            codes == CodesOf(Val(market))
        IN IF ~IsNone(Val(market).postal_codes)
           THEN /\ ~IsNone(loc.postal_code)
                /\ \E k \in 1..Len(codes) :
                     /\ codes[k].postal_code = Val(loc.postal_code)
                     /\ codes[k].str_tam > 0
                /\ (Len(codes) = 1 => loc.postal_code = Some(codes[1].postal_code))
           ELSE IsNone(loc.postal_code)

\* A draw on a Market whose first and last codes have weight 0.
C12_Witness ==
    /\ op = "sample_location_by_tam"
    /\ ret.err = "none"
    /\ Val(market).postal_codes = Some(MixedTam)
    /\ Val(ret.location).postal_code = Some("p1")

\* C13: sampling a location from a postal-code Market whose total str_tam is 0
\* raises to the caller and returns no location.
C13_ZeroTotalTamRaises ==
    (/\ op = "sample_location_by_tam"
     /\ ~IsNone(Val(market).postal_codes)
     /\ SumTam(CodesOf(Val(market))) = 0)
        => (ret.err # "none" /\ IsNone(ret.location))

\* A sampling call on a Market whose only code has weight 0.
C13_Witness ==
    /\ op = "sample_location_by_tam"
    /\ Val(market).postal_codes = Some(ZeroTam)
    /\ ret.err = "ZeroDivisionError"

\* C14 as stated: calculate_bid_probability returns exactly 0 if and only if
\* bidding_active is false.
C14_ZeroIffInactive ==
    op = "calculate_bid_probability" =>
        (ret = 0 <=> ~args.cleaner.bidding_active)

\* C14 amended: calculate_bid_probability returns exactly 0 whenever
\* bidding_active is false; for a bid-active cleaner the capacity factor,
\* floored at 0.1, never makes the result 0: the result is 0 only when
\* cleaner_score, base_probability or the distance factor is 0.
C14_ZeroOnlyByInactiveOrZeroFactor ==
    op = "calculate_bid_probability" =>
        /\ ~args.cleaner.bidding_active => ret = 0
        /\ (args.cleaner.bidding_active /\ ret = 0) =>
              \/ args.cleaner.cleaner_score = 0
              \/ args.base_probability = 0
              \/ np_exp_neg(args.distance_decay_factor * args.distance) = 0

\* A bid-active cleaner with no capacity left whose probability is positive.
C14_Witness ==
    /\ op = "calculate_bid_probability"
    /\ args.cleaner.bidding_active
    /\ args.cleaner.active_connections >= args.cleaner.team_size * 10
    /\ ret > 0

\* C15: for valid cleaners, offers and configurations and a distance >= 0, the
\* Simulator's bid probability and connection probability and the value of
\* Cleaner.calculate_bid_probability lie in [0, 1].
C15_ProbabilitiesInUnitInterval ==
    /\ op = "bid_probability" => (0 <= ret /\ ret <= 100000000)
    /\ op = "connection_probability" => (0 <= ret /\ ret <= 1000000)
    /\ op = "calculate_bid_probability" => (0 <= ret /\ ret <= 100000000)

\* The Simulator's bid probability at its upper end: base probability 1, score
\* 1, no connections held, no decay.
C15_Witness ==
    /\ op = "bid_probability"
    /\ args.offer.active
    /\ ret = 100000000

\* The concatenation of f(r) over the results rs, in order.
RECURSIVE ConcatOver(_, _)
ConcatOver(f(_), rs) ==
    IF rs = << >> THEN << >> ELSE f(Head(rs)) \o ConcatOver(f, Tail(rs))

OfferDistances(r) == [ k \in 1..Len(r.offers) |-> r.offers[k].distance ]
BidDistances(r) == [ k \in 1..Len(r.bids) |-> r.bids[k].distance ]
ConnectionDistances(r) == [ k \in 1..Len(r.connections) |-> r.connections[k].distance ]
OfferScores(r) == [ k \in 1..Len(r.offers) |-> r.offers[k].cleaner_score ]
BidScores(r) == [ k \in 1..Len(r.bids) |-> r.bids[k].cleaner_score ]
ConnectionScores(r) ==
    [ k \in 1..Len(r.connections) |-> r.connections[k].cleaner_score ]

\* C16: after folding any sequence of results, search_count is the number of
\* results folded, connection_count the total number of connections, bid_counts
\* holds each result's number of bids in order, and the offer, bid and
\* connection distance and score lists hold one entry per offer, bid and
\* connection, in order.
C16_AggregatesMatchFoldedResults ==
    LET mm == market_metrics
        rs == sm_results
    IN /\ mm.search_count = Len(rs)
       /\ mm.connection_count = Len(ConcatOver(ConnectionDistances, rs))
       /\ mm.bid_counts = [ k \in 1..Len(rs) |-> Len(rs[k].bids) ]
       /\ mm.distances.offer = ConcatOver(OfferDistances, rs)
       /\ mm.distances.bid = ConcatOver(BidDistances, rs)
       /\ mm.distances.connection = ConcatOver(ConnectionDistances, rs)
       /\ mm.cleaner_scores.offer = ConcatOver(OfferScores, rs)
       /\ mm.cleaner_scores.bid = ConcatOver(BidScores, rs)
       /\ mm.cleaner_scores.connection = ConcatOver(ConnectionScores, rs)

\* Three results folded by two add_results calls: a run's results, one of them
\* with a bid, and a result holding two connections.
C16_Witness ==
    /\ Len(sm_results) >= 3
    /\ nAddResults = 2
    /\ \E k \in 1..Len(sm_results) : Len(sm_results[k].connections) = 2
    /\ \E k \in 1..Len(sm_results) :
         sm_results[k].search_id > 0 /\ sm_results[k].bids # << >>

\* The results folded are a Simulator's: every one of them came from a run.
FromSimulator == \A k \in 1..Len(sm_results) : sm_results[k].search_id > 0

\* C17: calculate_metrics reports connection_rate = connection_count /
\* search_count, which is 0, without an exception, when no search was added,
\* and lies in [0, 1] when the results come from the Simulator.
C17_ConnectionRateReported ==
    ~IsNone(metricsOut) =>
        LET out == Val(metricsOut)
            mm == market_metrics
        IN /\ out.err = "none"
           /\ "connection_rate" \in DOMAIN out.metrics
           /\ mm.search_count = 0 => out.metrics["connection_rate"] = 0
           /\ mm.search_count > 0 =>
                out.metrics["connection_rate"]
                    = (100 * mm.connection_count) \div mm.search_count
           /\ FromSimulator =>
                (0 <= out.metrics["connection_rate"]
                    /\ out.metrics["connection_rate"] <= 100)

\* The coverage ratios of a metrics dict d are present and ordered:
\* 0 <= active_coverage_ratio <= coverage_ratio <= 1.
CoverageRatiosOrdered(d) ==
    /\ {"coverage_ratio", "active_coverage_ratio"} \subseteq DOMAIN d
    /\ 0 <= d["active_coverage_ratio"]
    /\ d["active_coverage_ratio"] <= d["coverage_ratio"]
    /\ d["coverage_ratio"] <= 100

\* C18: for every Market and registry, the coverage metrics computed once a
\* search is recorded have active_coverage_ratio <= coverage_ratio, both in
\* [0, 1], and both 0 when no cleaner is registered.
C18_CoverageRatiosBounded ==
    (~IsNone(metricsOut) /\ market_metrics.search_count > 0) =>
        LET out == Val(metricsOut)
        IN /\ out.err = "none"
           /\ CoverageRatiosOrdered(out.metrics)
           /\ cleaners = << >> =>
                (out.metrics["coverage_ratio"] = 0
                    /\ out.metrics["active_coverage_ratio"] = 0)

\* The total area of Market m is zero: a postal-code Market none of whose codes
\* has a positive area (a location Market has a positive radius).
TotalAreaIsZero(m) ==
    /\ ~IsNone(m.postal_codes)
    /\ \A k \in 1..Len(Val(m.postal_codes)) :
         LET a == Val(m.postal_codes)[k].area
         IN IsNone(a) \/ Val(a) <= 0

\* C19: computing metrics, once a search is recorded, for a Market whose total
\* area is zero returns a dict in which search_density, connection_density,
\* coverage_ratio and active_coverage_ratio are all 0, and never raises.
C19_ZeroAreaGivesZeroMetrics ==
    (/\ ~IsNone(metricsOut)
     /\ market_metrics.search_count > 0
     /\ TotalAreaIsZero(Val(market))) =>
        LET out == Val(metricsOut)
        IN /\ out.err = "none"
           /\ \A key \in {"search_density", "connection_density", "coverage_ratio",
                           "active_coverage_ratio"} :
                key \in DOMAIN out.metrics /\ out.metrics[key] = 0

\* The numeric parameters of a configuration are all in range.
ConfigInRange(cfg) ==
    /\ cfg.search_iterations > 0
    /\ cfg.supply_configuration_iterations > 0
    /\ cfg.cleaner_base_bid_probability \in 0..100
    /\ cfg.connection_base_probability \in 0..100
    /\ cfg.distance_decay_factor >= 0
    /\ cfg.min_capacity_factor \in 1..100
    /\ cfg.search_radius_km > 0

\* C20: every SimulationConfig that is constructed successfully has all its
\* numeric parameters in range (iteration counts, base probabilities, distance
\* decay factor, capacity floor, search radius), so that no run ends in an
\* error raised for the configuration's search radius.
C20_ConstructedConfigInRange ==
    /\ ~IsNone(config) => ConfigInRange(Val(config))
    /\ (pc = "raised" /\ ~IsNone(config)) => Val(config).search_radius_km > 0

\* C21: for every valid config c, SimulationConfig.from_dict(c.asdict()) is
\* constructed and has the same value as c in every attribute.
C21_ConfigRoundTrip ==
    op = "from_dict_asdict" =>
        /\ ret.err = "none"
        /\ ret.config = Some(args)

\* C22: run_simulation treats the Market as read-only: no step of a run, from
\* the call to its return or its error, changes the cleaner registry (ids,
\* active_connections, flags, scores, positions, order) or the Market's
\* postal-code mapping, center and radius, whatever bids and connections the
\* searches made.
C22_RunLeavesMarketUnchanged ==
    [][ (pc = "ready" \/ pc = "running")
            => (cleaners' = cleaners /\ market' = market) ]_vars

\* A returned run with a connection made, over a registry of two cleaners.
C22_Witness ==
    /\ pc = "returned"
    /\ Len(cleaners) >= 2
    /\ \E k \in 1..Len(results) : results[k].connections # << >>

\* C23: metrics consume SearchResults read-only: an add_results call or a
\* get_metrics call changes no field of the run's SearchResults (nor of their
\* offers, bids and connections), of the results added before, or of the
\* Market and its registry.
C23_MetricsReadOnly ==
    [][ (nAddResults' # nAddResults \/ metricsOut' # metricsOut) =>
          /\ results' = results
          /\ Len(sm_results') >= Len(sm_results)
          /\ SubSeq(sm_results', 1, Len(sm_results)) = sm_results
          /\ market' = market
          /\ cleaners' = cleaners ]_vars

\* Metrics reported after two add_results calls on a run's results, one of
\* them holding a connection.
C23_Witness ==
    /\ pc = "reported"
    /\ nAddResults = 2
    /\ \E k \in 1..Len(results) : results[k].connections # << >>
    /\ Len(sm_results) >= 2 * Len(results)

\* C24: every SearchResult a run holds has its latitude and longitude in the
\* valid ranges; a search whose sampled location lies outside them is not
\* clamped: it raises, the error ends run_simulation, and the caller gets no
\* results.
C24_OutOfRangeLocationRaises ==
    /\ [](\A k \in 1..Len(results) :
            /\ -MaxLat <= results[k].latitude /\ results[k].latitude <= MaxLat
            /\ -MaxLon <= results[k].longitude /\ results[k].longitude <= MaxLon)
    /\ [][ trials' = trials + 1 =>
             LET loc == sample_location_by_tam(Val(market), rng)
             IN (/\ loc.err = "none"
                 /\ \/ Abs(loc.latitude) > MaxLat
                    \/ Abs(loc.longitude) > MaxLon)
                    => (pc' = "raised" /\ results' = << >>) ]_vars

\* A run whose second search sampled a location off the valid range, on a
\* postal-code Market of positive total TAM searched with a positive radius.
C24_Witness ==
    /\ pc = "raised"
    /\ trials >= 2
    /\ ~IsNone(Val(market).postal_codes)
    /\ SumTam(Val(Val(market).postal_codes)) > 0
    /\ Val(config).search_radius_km > 0

\* The generator state after k draws from state s.
RECURSIVE RngAfter(_, _)
RngAfter(s, k) == IF k = 0 THEN s ELSE RngAfter(RngNext(s), k - 1)

\* The place of bid i of the list bids in the order of the walk: after every
\* bid of a higher score and every earlier bid of the same score.
RankOf(bids, i) ==
    1 + Cardinality({ j \in 1..Len(bids) :
                        \/ bids[j].cleaner_score > bids[i].cleaner_score
                        \/ /\ bids[j].cleaner_score = bids[i].cleaner_score
                           /\ j < i })

\* The bids in the order of the walk.
Ranked(bids) ==
    [ p \in 1..Len(bids) |->
        bids[CHOOSE i \in 1..Len(bids) : RankOf(bids, i) = p] ]

\* The draw made for the bid walked p-th succeeds, the walk starting in
\* generator state s.
ConnectDrawSucceeds(cfg, bids, s, p) ==
    RngOut(RngAfter(s, p - 1)) * 1000000
        < ConnectionProbability(cfg, Ranked(bids)[p]) * 4

\* C25: the bids are walked by cleaner_score descending, bids of equal score
\* in their order in the bid list; the connection is the first bid in that
\* order whose draw succeeds, every bid before it was drawn for and failed, no
\* bid after it is drawn for; when every draw fails there is no connection.
C25_FirstSuccessInScoreOrder ==
    op = "_simulate_connections" =>
        LET bids == args.bids
            wins == { p \in 1..Len(bids) :
                        ConnectDrawSucceeds(args.config, bids, args.rng, p) }
        IN IF wins = {}
           THEN /\ ret.connections = << >>
                /\ ret.rng = RngAfter(args.rng, Len(bids))
           ELSE LET first == CHOOSE p \in wins : \A q \in wins : p <= q
                IN /\ ret.connections = << Connection(Ranked(bids)[first]) >>
                   /\ ret.rng = RngAfter(args.rng, first)

\* The connected bid is the first-listed of two bids of equal score; it was
\* drawn for second, after the failed draw of the bid of a higher score that
\* is listed last, and the other bid of its score was not drawn for.
C25_Witness ==
    /\ op = "_simulate_connections"
    /\ Len(args.bids) = 3
    /\ args.bids[1].cleaner_score = args.bids[2].cleaner_score
    /\ args.bids[3].cleaner_score > args.bids[1].cleaner_score
    /\ ret.connections = << Connection(args.bids[1]) >>
    /\ ret.rng = RngAfter(args.rng, 2)

\* The number of draws a search with result r made: the location draws (three
\* on a postal-code Market, two on a location Market), one per active offer,
\* and one per bid walked, up to the connected bid.
DrawsOfSearch(m, r) ==
    (IF IsNone(m.postal_codes) THEN 2 ELSE 3)
    + Cardinality({ o \in 1..Len(r.offers) : r.offers[o].active })
    + (IF r.connections = << >>
       THEN Len(r.bids)
       ELSE CHOOSE p \in 1..Len(r.bids) :
                Connection(Ranked(r.bids)[p]) = r.connections[1])

RECURSIVE DrawsOfRun(_, _)
DrawsOfRun(m, rs) ==
    IF rs = << >> THEN 0 ELSE DrawsOfSearch(m, Head(rs)) + DrawsOfRun(m, Tail(rs))

\* C26: with a random_seed configured the generator is seeded once per run,
\* before the first draw of the first search, and not again during the run: at
\* every point of a run its state is the seeded state advanced by exactly the
\* draws of the searches made so far.
C26_SeededOncePerRun ==
    (Seeded /\ (pc = "running" \/ pc = "returned")) =>
        rng = RngAfter(np_random_seed(Val(Val(config).random_seed)),
                       DrawsOfRun(Val(market), results))

\* The second seeded run of a Simulator has returned two searches, one of
\* them with a bid.
C26_Witness ==
    /\ Seeded
    /\ pc = "returned"
    /\ runNo = 2
    /\ Len(results) >= 2
    /\ \E k \in 1..Len(results) : results[k].bids # << >>

\* The cleaner an Offer o was made to, as far as the bid probability reads it.
CleanerOfOffer(o) ==
    Cleaner(o.contractor_id, 0, 0, None, o.active, o.cleaner_score, o.team_size,
            o.active_connections)

\* C27: the probability the Simulator's Bid step uses for an offer of a
\* bid-active cleaner equals the cleaner's own bid probability for the same
\* distance, with the distance decay factor, the base probability and the
\* capacity floor taken from the SimulationConfig, for every valid config and
\* cleaner.
C27_SimulatorUsesCleanerBidProbability ==
    (op = "bid_probability" /\ args.offer.active) =>
        /\ ret = args.config.cleaner_base_bid_probability
                    * args.offer.cleaner_score
                    * Max2(args.config.min_capacity_factor,
                           100 - (100 * args.offer.active_connections)
                                    \div (args.offer.team_size * 10))
                    * np_exp_neg(args.config.distance_decay_factor
                                    * args.offer.distance)
        /\ ret = Cleaner_calculate_bid_probability(
                    CleanerOfOffer(args.offer), args.offer.distance,
                    args.config.distance_decay_factor,
                    args.config.cleaner_base_bid_probability)

\* The cleaners of the registry reg based in postal code code, all of them or
\* the bid-active ones only.
CleanersIn(reg, code, active_only) ==
    { k \in 1..Len(reg) :
        /\ reg[k].postal_code = Some(code)
        /\ (active_only => reg[k].bidding_active) }

\* min(pi * r^2, area of the code) for the largest service radius r among the
\* cleaners ks of the registry reg; pi is taken as 3.14 and an absent area as 0.
CoveredIn(reg, ks, pc_data) ==
    LET r == CHOOSE x \in { reg[k].service_radius : k \in ks } :
                 \A k \in ks : reg[k].service_radius <= x
        area == IF IsNone(pc_data.area) THEN 0 ELSE Val(pc_data.area)
    IN Min2((314 * r * r) \div 100, area)

\* The sum of CoveredIn over the postal codes that have a cleaner.
RECURSIVE CoveredArea(_, _, _)
CoveredArea(reg, codes, active_only) ==
    IF codes = << >> THEN 0
    ELSE LET ks == CleanersIn(reg, Head(codes).postal_code, active_only)
         IN (IF ks = {} THEN 0 ELSE CoveredIn(reg, ks, Head(codes)))
                + CoveredArea(reg, Tail(codes), active_only)

\* The sum of the areas of the postal codes.
RECURSIVE SumArea(_)
SumArea(codes) ==
    IF codes = << >> THEN 0
    ELSE (IF IsNone(Head(codes).area) THEN 0 ELSE Val(Head(codes).area))
            + SumArea(Tail(codes))

\* C28: for a postal-code Market of positive total area, the metrics computed
\* once a search is recorded give coverage_ratio as the sum, over the postal
\* codes with a registered cleaner, of min(pi * r^2, area of the code), r the
\* largest service radius among the code's cleaners, divided by the total
\* area, and active_coverage_ratio as the same over the bid-active cleaners.
C28_PostalCoverageFormula ==
    (/\ ~IsNone(metricsOut)
     /\ market_metrics.search_count > 0
     /\ ~IsNone(Val(market).postal_codes)
     /\ SumArea(CodesOf(Val(market))) > 0) =>
        LET out == Val(metricsOut)
            codes == CodesOf(Val(market))
        IN /\ out.err = "none"
           /\ {"coverage_ratio", "active_coverage_ratio"} \subseteq DOMAIN out.metrics
           /\ out.metrics["coverage_ratio"]
                = (100 * CoveredArea(cleaners, codes, FALSE)) \div SumArea(codes)
           /\ out.metrics["active_coverage_ratio"]
                = (100 * CoveredArea(cleaners, codes, TRUE)) \div SumArea(codes)

IsActiveOffer(o) == o.active

\* The i-th smallest element of the set S of numbers.
NthSmallest(S, i) == CHOOSE x \in S : Cardinality({ y \in S : y < x }) = i - 1

\* C29: within one search the draws come in a fixed order: first the location
\* draws, then one uniform draw per bid-active offer in offer order and none
\* for an inactive offer, then one uniform draw per bid walked in the Connect
\* step up to the first success; the search leaves the generator advanced by
\* exactly these draws, for the next search to draw from.
C29_DrawsInFixedOrder ==
    [][ (trials' = trials + 1 /\ pc' = "running") =>
          LET m == Val(market)
              cfg == Val(config)
              r == results'[Len(results')]
              loc == sample_location_by_tam(m, rng)
              nLoc == IF IsNone(m.postal_codes) THEN 2 ELSE 3
              act == SelectSeq(r.offers, IsActiveOffer)
              bidWon(j) == RngOut(RngAfter(rng, nLoc + j - 1)) * 100000000
                               < BidProbability(cfg, act[j]) * 4
              won == { j \in 1..Len(act) : bidWon(j) }
              sConnect == RngAfter(rng, nLoc + Len(act))
              wins == { p \in 1..Len(r.bids) :
                          ConnectDrawSucceeds(cfg, r.bids, sConnect, p) }
              nConnect == IF wins = {} THEN Len(r.bids) ELSE NthSmallest(wins, 1)
          IN /\ loc.rng = RngAfter(rng, nLoc)
             /\ r.latitude = loc.latitude /\ r.longitude = loc.longitude
             /\ r.bids = [ i \in 1..Cardinality(won) |->
                             Bid(act[NthSmallest(won, i)]) ]
             /\ r.connections =
                    IF wins = {} THEN << >>
                    ELSE << Connection(Ranked(r.bids)[nConnect]) >>
             /\ rng' = RngAfter(rng, nLoc + Len(act) + nConnect) ]_vars

\* A search that offered an inactive cleaner, got two bids and connected the
\* bid walked second: two location draws, two bid draws, two connect draws.
C29_Witness ==
    \E k \in 1..Len(results) :
        /\ \E o \in 1..Len(results[k].offers) : ~results[k].offers[o].active
        /\ Len(results[k].bids) = 2
        /\ results[k].connections = << Connection(Ranked(results[k].bids)[2]) >>

\* The added results that hold at least one connection.
Connected(rs) == { k \in 1..Len(rs) : rs[k].connections # << >> }

\* C30: after any sequence of add_results calls, len(results), search_count,
\* len(bid_counts) and len(search_points) are equal; len(connection_points) is
\* the number of added results with at least one connection, which is at most
\* search_count and equals connection_count when every result has at most one
\* connection.
C30_AggregatesConsistent ==
    LET mm == market_metrics
        g == market_metrics.geographic
    IN /\ Len(sm_results) = mm.search_count
       /\ mm.search_count = Len(mm.bid_counts)
       /\ mm.search_count = Len(g.search_points)
       /\ Len(g.connection_points) = Cardinality(Connected(sm_results))
       /\ Len(g.connection_points) <= mm.search_count
       /\ (\A k \in 1..Len(sm_results) : Len(sm_results[k].connections) <= 1)
             => Len(g.connection_points) = mm.connection_count

\* Two add_results calls, one with a run's results, one with a result holding
\* two connections: the connection points are fewer than the connections and
\* fewer than the searches.
C30_Witness ==
    /\ nAddResults = 2
    /\ Len(sm_results) >= 3
    /\ \E k \in 1..Len(sm_results) : Len(sm_results[k].connections) = 2
    /\ Len(market_metrics.geographic.connection_points)
          < market_metrics.connection_count
    /\ Len(market_metrics.geographic.connection_points)
          < market_metrics.search_count

====
